---- MODULE Spec2Model ----
(***************************************************************************)
(* A model of the two converters of gcode-converter:                       *)
(*   image_to_gcode.py  (image_to_gcode, generate_gcode)                   *)
(*   svg_to_gcode.py    (svg_to_gcode, calculate_scaling_factor_and_       *)
(*                       transform, path_to_gcode)                         *)
(* One run of one converter is a behaviour: the arguments and the source   *)
(* are fixed in the initial state, each action is one step of the script.  *)
(* cv2 and svgpathtools are collaborators: what they return (the image     *)
(* shape and the contours, the svg attributes and the paths) is input.     *)
(*                                                                         *)
(* Numbers.  Python floats are modelled as exact rationals <<n, d>> in     *)
(* lowest terms with d > 0, extended by <<1, 0>> (inf), <<-1, 0>> (-inf)   *)
(* and <<0, 0>> (nan), which the svg bounding-box scan produces for a      *)
(* scene without segments.  Binary rounding and the sign of zero are not   *)
(* modelled.                                                               *)
(***************************************************************************)
EXTENDS Integers, Sequences, FiniteSets, TLC

VARIABLES
    conv,      \* which script runs: "image" or "svg"
    args,      \* power, feed_rate, longest_side, center_offset
    source,    \* what the source file holds (see ImageSources, SvgSources)
    geom,      \* contours (image) or paths (svg), as the script holds them
    loc,       \* locals: scale_factor, min_x, svg_height, offset_x, offset_y
    k,         \* index of the next contour / path to write
    dest,      \* the output file: exists, opened (by this run), lines
    pc,        \* position in the script
    err        \* the exception that ended the run, or "none"

vars == <<conv, args, source, geom, loc, k, dest, pc, err>>

----------------------------------------------------------------------------
(* Bounds of the model. *)

MaxCoord == 2      \* the largest coordinate of a source point
MaxPoints == 3     \* points of a scene, over all its curves
MaxPower == 1      \* power is 0 or MaxPower
MaxFeed == 1       \* feed_rate is 0 or MaxFeed
MaxTarget == 2     \* longest_side is absent, 1 or MaxTarget
MaxPlace == 1      \* center_offset is absent or (MaxPlace, MaxPlace + 1)
MaxSize == 4       \* the image is MaxCoord + 1 rows of MaxSize pixels;
                   \* the svg document is MaxSize high

(* img[:, :, :3]: the image has three channels once alpha is dropped. *)
Channels == 3

----------------------------------------------------------------------------
(* Extended rationals. *)

RECURSIVE GCD(_, _)
GCD(a, b) == IF b = 0 THEN a ELSE GCD(b, a % b)

Abs(i) == IF i < 0 THEN -i ELSE i

Sgn(i) == IF i < 0 THEN -1 ELSE IF i > 0 THEN 1 ELSE 0

Norm(n, d) ==
    LET g == GCD(Abs(n), Abs(d))
        s == IF d < 0 THEN -1 ELSE 1
    IN  <<(s * n) \div g, (s * d) \div g>>

R(i) == <<i, 1>>
Inf == <<1, 0>>
NegInf == <<-1, 0>>
NaN == <<0, 0>>

IsFinite(a) == a[2] # 0
IsNaN(a) == a[1] = 0 /\ a[2] = 0

RNeg(a) == <<-a[1], a[2]>>

RAdd(a, b) ==
    IF IsNaN(a) \/ IsNaN(b) THEN NaN
    ELSE IF ~IsFinite(a) THEN (IF ~IsFinite(b) /\ b # a THEN NaN ELSE a)
    ELSE IF ~IsFinite(b) THEN b
    ELSE Norm(a[1] * b[2] + b[1] * a[2], a[2] * b[2])

RSub(a, b) == RAdd(a, RNeg(b))

RMul(a, b) ==
    IF IsNaN(a) \/ IsNaN(b) THEN NaN
    ELSE IF ~IsFinite(a) \/ ~IsFinite(b)
         THEN <<Sgn(a[1]) * Sgn(b[1]), 0>>      \* inf * 0 = nan
    ELSE Norm(a[1] * b[1], a[2] * b[2])

(* a / b for b # 0 (Python raises ZeroDivisionError for b = 0). *)
RDiv(a, b) ==
    IF IsNaN(a) \/ IsNaN(b) THEN NaN
    ELSE IF ~IsFinite(b) THEN (IF IsFinite(a) THEN R(0) ELSE NaN)
    ELSE IF ~IsFinite(a) THEN <<Sgn(a[1]) * Sgn(b[1]), 0>>
    ELSE Norm(a[1] * b[2], a[2] * b[1])

(* a < b, for a and b not nan. *)
RLt(a, b) ==
    IF ~IsFinite(a) /\ ~IsFinite(b) THEN a[1] < b[1]
    ELSE a[1] * b[2] < b[1] * a[2]

RMin(a, b) == IF RLt(b, a) THEN b ELSE a
RMax(a, b) == IF RLt(a, b) THEN b ELSE a

(* max(img.shape) *)
Max2(a, b) == IF a < b THEN b ELSE a

----------------------------------------------------------------------------
(* The lines of the output program.  A line is its command word, its       *)
(* coordinates <<X, Y>> (or <<>>) and its S / F value <<v>> (or <<>>);     *)
(* the trailing "; ..." comments of the text are left out.  A coordinate   *)
(* is the text of a number: how many decimals were printed, and the        *)
(* printed value in units of 10^-dec (for inf, -inf, nan: fin = FALSE      *)
(* and m = 1, -1, 0).                                                      *)

(* f"{a:.3f}": round to three decimals, ties to even (no tie arises here,  *)
(* so the binary representation does not decide a digit).                  *)
Fmt3(a) ==
    IF ~IsFinite(a) THEN [dec |-> 3, fin |-> FALSE, m |-> a[1]]
    ELSE LET n == a[1] * 1000
             q == n \div a[2]
             r == n % a[2]
         IN  [dec |-> 3, fin |-> TRUE,
              m |-> IF 2 * r < a[2] THEN q
                    ELSE IF 2 * r > a[2] THEN q + 1
                    ELSE IF q % 2 = 0 THEN q ELSE q + 1]

Ln(op, xy, v) == [op |-> op, xy |-> xy, v |-> v]

(* "G0 X0 Y0\n": the literal text, no decimals *)
Zero0 == [dec |-> 0, fin |-> TRUE, m |-> 0]

HomeLine == <<Ln("G0", <<Zero0, Zero0>>, <<>>)>>

ImageSetupLinesSwapped == <<Ln("G90", <<>>, <<>>), Ln("G21", <<>>, <<>>), Ln("M5", <<>>, <<>>)>>

ImageSetupLines == <<Ln("G21", <<>>, <<>>), Ln("G90", <<>>, <<>>), Ln("M5", <<>>, <<>>)>>

SvgSetupLines == <<Ln("G21", <<>>, <<>>), Ln("G90", <<>>, <<>>), Ln("M5", <<>>, <<>>)>>

(* What the destination holds before the run, when it exists. *)
StaleLine == Ln("stale", <<>>, <<>>)

----------------------------------------------------------------------------
(* generate_gcode, lines 26-38: the lines written for one contour.         *)

PointXY(point, scale_factor, offset_x, offset_y) ==
    <<Fmt3(RAdd(RMul(R(point[1]), scale_factor), offset_x)),
      Fmt3(RAdd(RMul(R(point[2]), scale_factor), offset_y))>>

PointLines(i, point, power, feed_rate, scale_factor, offset_x, offset_y) ==
    LET xy == PointXY(point, scale_factor, offset_x, offset_y)
    IN  IF i = 1
        THEN <<Ln("G0", xy, <<>>), Ln("M3", <<>>, <<power>>)>>
        ELSE <<Ln("G1", xy, <<feed_rate>>)>>

RECURSIVE PointsFrom(_, _, _, _, _, _, _)
PointsFrom(i, contour, power, feed_rate, scale_factor, offset_x, offset_y) ==
    IF i > Len(contour) THEN <<>>
    ELSE PointLines(i, contour[i], power, feed_rate, scale_factor, offset_x, offset_y)
         \o PointsFrom(i + 1, contour, power, feed_rate, scale_factor, offset_x, offset_y)

(* the variant with the laser switched off once, after all contours *)
ContourLinesOffAtEnd(contour, power, feed_rate, scale_factor, offset_x, offset_y) ==
    PointsFrom(1, contour, power, feed_rate, scale_factor, offset_x, offset_y)

(* the variant that closes the contour with a move back to its start *)
ContourLinesClosed(contour, power, feed_rate, scale_factor, offset_x, offset_y) ==
    PointsFrom(1, contour, power, feed_rate, scale_factor, offset_x, offset_y)
    \o <<Ln("G1", PointXY(contour[1], scale_factor, offset_x, offset_y), <<feed_rate>>),
         Ln("M5", <<>>, <<>>)>>

ContourLines(contour, power, feed_rate, scale_factor, offset_x, offset_y) ==
    PointsFrom(1, contour, power, feed_rate, scale_factor, offset_x, offset_y)
    \o <<Ln("M5", <<>>, <<>>)>>

----------------------------------------------------------------------------
(* path_to_gcode: the lines of one path, four per segment.  A segment is   *)
(* <<start, end>>, a point <<x, y>>.                                       *)

SegmentLines(segment, scale_factor, min_x, offset_x, offset_y, feed_rate, power) ==
    LET start_x == RAdd(RMul(RSub(R(segment[1][1]), min_x), scale_factor), offset_x)
        start_y == RAdd(RMul(R(segment[1][2]), scale_factor), offset_y)
        end_x == RAdd(RMul(RSub(R(segment[2][1]), min_x), scale_factor), offset_x)
        end_y == RAdd(RMul(R(segment[2][2]), scale_factor), offset_y)
    IN  <<Ln("G0", <<Fmt3(start_x), Fmt3(start_y)>>, <<>>),
          Ln("M3", <<>>, <<power>>),
          Ln("G1", <<Fmt3(end_x), Fmt3(end_y)>>, <<feed_rate>>),
          Ln("M5", <<>>, <<>>)>>

RECURSIVE SegmentsFrom(_, _, _, _, _, _, _, _)
SegmentsFrom(i, path, scale_factor, min_x, offset_x, offset_y, feed_rate, power) ==
    IF i > Len(path) THEN <<>>
    ELSE SegmentLines(path[i], scale_factor, min_x, offset_x, offset_y, feed_rate, power)
         \o SegmentsFrom(i + 1, path, scale_factor, min_x, offset_x, offset_y, feed_rate, power)

PathToGcode(path, scale_factor, min_x, offset_x, offset_y, feed_rate, power) ==
    SegmentsFrom(1, path, scale_factor, min_x, offset_x, offset_y, feed_rate, power)

----------------------------------------------------------------------------
(* calculate_scaling_factor_and_transform *)

(* lines 19-31: the scan of the segments' endpoints *)
RECURSIVE ScanSegments(_, _, _)
ScanSegments(i, segs, box) ==
    IF i > Len(segs) THEN box
    ELSE LET s == segs[i][1]
             e == segs[i][2]
         IN  ScanSegments(i + 1, segs,
                 <<RMin(RMin(box[1], R(s[1])), R(e[1])),
                   RMin(RMin(box[2], R(s[2])), R(e[2])),
                   RMax(RMax(box[3], R(s[1])), R(e[1])),
                   RMax(RMax(box[4], R(s[2])), R(e[2]))>>)

RECURSIVE ScanPaths(_, _, _)
ScanPaths(i, paths, box) ==
    IF i > Len(paths) THEN box
    ELSE ScanPaths(i + 1, paths, ScanSegments(1, paths[i], box))

BoundingBox(paths) == ScanPaths(1, paths, <<Inf, Inf, NegInf, NegInf>>)

(* lines 34-37: the vertical flip, in place *)
FlipPaths(paths, svg_height) ==
    [p \in 1..Len(paths) |->
        [i \in 1..Len(paths[p]) |->
            <<<<paths[p][i][1][1], svg_height - paths[p][i][1][2]>>,
              <<paths[p][i][2][1], svg_height - paths[p][i][2][2]>>>>]]

(* line 39 *)
CurrentLongestSide(box) == RMax(RSub(box[3], box[1]), RSub(box[4], box[2]))

----------------------------------------------------------------------------
(* Python truth of an optional argument: <<>> is None. *)
Truthy(opt) == opt # <<>> /\ opt[1] # 0

----------------------------------------------------------------------------
(* Inputs.                                                                 *)

(* Sample points: the origin and two points off both axes, so that a      *)
(* scene's box can have any of them as a corner, zero extent, or a left   *)
(* edge off x = 0.                                                        *)
Pts == {<<0, 0>>, <<1, MaxCoord>>, <<MaxCoord, 1>>}

(* The point sequence ps cut into curves after the positions in cuts. *)
Split(ps, cuts) ==
    LET F[i \in 0..Len(ps)] ==
            IF i = 0 THEN <<>>
            ELSE IF i = 1 \/ (i - 1) \in cuts
                 THEN Append(F[i - 1], <<ps[i]>>)
                 ELSE [F[i - 1] EXCEPT ![Len(F[i - 1])] = Append(@, ps[i])]
    IN  F[Len(ps)]

(* Scenes: sequences of curves, a curve one or more points, at most n      *)
(* points in all.                                                          *)
ScenesUpTo(n) ==
    UNION {UNION {{Split(ps, cuts) : cuts \in SUBSET (1..(m - 1))} : ps \in [1..m -> Pts]}
           : m \in 0..n}

Scenes == ScenesUpTo(MaxPoints)

(* svgpathtools: a polyline of p points is a path of p - 1 segments. *)
PathOf(curve) == [i \in 1..(Len(curve) - 1) |-> <<curve[i], curve[i + 1]>>]
PathsOf(curves) == [c \in 1..Len(curves) |-> PathOf(curves[c])]

Src(readable, shape, viewBox, height, curves) ==
    [readable |-> readable, shape |-> shape, viewBox |-> viewBox,
     height |-> height, curves |-> curves]

(* An image file: unreadable, or h x w pixels and the contours cv2 finds. *)
ImageSources(scenes) ==
    {Src(FALSE, <<>>, <<>>, <<>>, <<>>)}
    \cup {Src(TRUE, <<MaxCoord + 1, MaxSize, Channels>>, <<>>, <<>>, c) : c \in scenes}

(* An svg file: unreadable, or its viewBox height and height attribute     *)
(* (each declared or not) and its paths.                                   *)
SvgSources(scenes) ==
    {Src(FALSE, <<>>, <<>>, <<>>, <<>>)}
    \cup {Src(TRUE, <<>>, vb, ht, c) :
              vb \in {<<>>, <<MaxSize>>}, ht \in {<<>>, <<MaxSize>>}, c \in scenes}

Powers == {0, MaxPower}
Feeds == {0, MaxFeed}
Targets == {<<>>, <<1>>, <<MaxTarget>>}
Places == {<<>>, <<MaxPlace, MaxPlace + 1>>}

Unset == NaN
NoLocals == [scale_factor |-> Unset, min_x |-> Unset, svg_height |-> Unset,
             offset_x |-> Unset, offset_y |-> Unset]

Absent == [exists |-> FALSE, opened |-> FALSE, lines |-> <<>>]
Stale == [exists |-> TRUE, opened |-> FALSE, lines |-> <<StaleLine>>]

InitOver(images, svgs, powers, feeds, targets, places, dests) ==
    /\ conv \in {"image", "svg"}
    /\ source \in (IF conv = "image" THEN images ELSE svgs)
    /\ args \in [power : powers, feed_rate : feeds,
                 longest_side : targets, center_offset : places]
    /\ dest \in dests
    /\ geom = <<>>
    /\ loc = NoLocals
    /\ k = 0
    /\ pc = IF conv = "image" THEN "imread" ELSE "svg2paths2"
    /\ err = "none"

Init ==
    InitOver(ImageSources(Scenes), SvgSources(Scenes), Powers, Feeds, Targets, Places,
             {Absent, Stale})

----------------------------------------------------------------------------
(* Steps shared by both scripts. *)

Raise(e) ==
    /\ pc' = "failed"
    /\ err' = e

(* open(output_path, "w"): the file is created or truncated *)
Opened(lines) == [exists |-> TRUE, opened |-> TRUE, lines |-> lines]

Write(lines) == dest' = [dest EXCEPT !.lines = @ \o lines]

----------------------------------------------------------------------------
(* image_to_gcode *)

(* lines 70-96: the image is read (or the run ends), the contours found *)
ImageLoadOpensFirst ==
    /\ conv = "image" /\ pc = "imread"
    /\ dest' = Opened(<<>>)
    /\ IF ~source.readable
       THEN Raise("ValueError") /\ UNCHANGED geom
       ELSE geom' = source.curves /\ pc' = "scale" /\ UNCHANGED err
    /\ UNCHANGED <<conv, args, source, loc, k>>

ImageLoad ==
    /\ conv = "image" /\ pc = "imread"
    /\ IF ~source.readable
       THEN Raise("ValueError") /\ UNCHANGED geom
       ELSE geom' = source.curves /\ pc' = "scale" /\ UNCHANGED err
    /\ UNCHANGED <<conv, args, source, loc, k, dest>>

(* lines 98-102 *)
ImageScaleFactor(longest_side, shape) ==
    IF Truthy(longest_side)
    THEN RDiv(R(longest_side[1]), R(Max2(Max2(shape[1], shape[2]), shape[3])))
    ELSE R(1)

(* lines 104-106 *)
ImageOffset(center_offset) ==
    IF Len(center_offset) > 0
    THEN <<R(center_offset[1]), R(center_offset[2])>>
    ELSE <<R(0), R(0)>>

ImageTransform ==
    /\ conv = "image" /\ pc = "scale"
    /\ loc' = [loc EXCEPT
                 !.scale_factor = ImageScaleFactor(args.longest_side, source.shape),
                 !.offset_x = ImageOffset(args.center_offset)[1],
                 !.offset_y = ImageOffset(args.center_offset)[2]]
    /\ pc' = "open"
    /\ UNCHANGED <<conv, args, source, geom, k, dest, err>>

(* generate_gcode, lines 21-24 *)
GenOpen ==
    /\ conv = "image" /\ pc = "open"
    /\ dest' = Opened(ImageSetupLines)
    /\ k' = 1
    /\ pc' = "write"
    /\ UNCHANGED <<conv, args, source, geom, loc, err>>

(* generate_gcode, lines 26-38, one contour *)
GenContour ==
    /\ conv = "image" /\ pc = "write"
    /\ k <= Len(geom)
    /\ Write(ContourLines(geom[k], args.power, args.feed_rate,
                          loc.scale_factor, loc.offset_x, loc.offset_y))
    /\ k' = k + 1
    /\ UNCHANGED <<conv, args, source, geom, loc, pc, err>>

(* generate_gcode, line 41, and the end of the with block *)
GenHome ==
    /\ conv = "image" /\ pc = "write"
    /\ k > Len(geom)
    /\ Write(HomeLine)
    /\ pc' = "done"
    /\ UNCHANGED <<conv, args, source, geom, loc, k, err>>

----------------------------------------------------------------------------
(* svg_to_gcode *)

(* line 79: svg2paths2 reads the file (or the run ends) *)
SvgLoad ==
    /\ conv = "svg" /\ pc = "svg2paths2"
    /\ IF ~source.readable
       THEN Raise("SourceError") /\ UNCHANGED geom
       ELSE geom' = PathsOf(source.curves) /\ pc' = "calculate" /\ UNCHANGED err
    /\ UNCHANGED <<conv, args, source, loc, k, dest>>

(* calculate_scaling_factor_and_transform, lines 10-17: "ok" and the       *)
(* height, or the exception.  Line 13 reads s_attr, a name defined         *)
(* nowhere.                                                                *)
SvgHeight(src) ==
    IF src.viewBox # <<>> THEN <<"ok", src.viewBox[1]>>
    ELSE IF src.height # <<>> THEN <<"NameError", 0>>
    ELSE <<"ValueError", 0>>

(* lines 40-42: "ok" and the scale factor, or the exception *)
SvgScaleFactor(target_longest_side, current_longest_side) ==
    IF target_longest_side = <<>> THEN <<"ok", R(1)>>
    ELSE IF current_longest_side = R(0) THEN <<"ZeroDivisionError", NaN>>
    ELSE <<"ok", RDiv(R(target_longest_side[1]), current_longest_side)>>

SvgCalculate ==
    /\ conv = "svg" /\ pc = "calculate"
    /\ LET h == SvgHeight(source)
           box == BoundingBox(geom)
           sf == SvgScaleFactor(args.longest_side, CurrentLongestSide(box))
       IN  IF h[1] # "ok"
           THEN Raise(h[1]) /\ UNCHANGED <<geom, loc>>
           ELSE /\ geom' = FlipPaths(geom, h[2])
                /\ IF sf[1] # "ok"
                   THEN Raise(sf[1]) /\ UNCHANGED loc
                   ELSE /\ loc' = [loc EXCEPT !.scale_factor = sf[2],
                                              !.min_x = box[1],
                                              !.svg_height = R(h[2])]
                        /\ pc' = "center"
                        /\ UNCHANGED err
    /\ UNCHANGED <<conv, args, source, k, dest>>

(* lines 74-77 *)
CenterOffset(center_offset) ==
    IF Len(center_offset) > 0
    THEN <<R(center_offset[1]), R(center_offset[2])>>
    ELSE <<R(0), R(0)>>

(* lines 85-92 *)
SvgOffset(center_offset, scale_factor, min_x, svg_height) ==
    LET scaled_width == RMul(RSub(svg_height, min_x), scale_factor)
        scaled_height == RMul(svg_height, scale_factor)
        center_x == RAdd(min_x, RDiv(scaled_width, R(2)))
        center_y == RDiv(scaled_height, R(2))
    IN  <<RSub(CenterOffset(center_offset)[1], center_x),
          RSub(CenterOffset(center_offset)[2], center_y)>>

SvgCenter ==
    /\ conv = "svg" /\ pc = "center"
    /\ LET off == SvgOffset(args.center_offset, loc.scale_factor, loc.min_x, loc.svg_height)
       IN  loc' = [loc EXCEPT !.offset_x = off[1], !.offset_y = off[2]]
    /\ pc' = "open"
    /\ UNCHANGED <<conv, args, source, geom, k, dest, err>>

(* lines 94-97 *)
SvgOpen ==
    /\ conv = "svg" /\ pc = "open"
    /\ dest' = Opened(SvgSetupLines)
    /\ k' = 1
    /\ pc' = "write"
    /\ UNCHANGED <<conv, args, source, geom, loc, err>>

(* lines 99-103, one path *)
SvgPath ==
    /\ conv = "svg" /\ pc = "write"
    /\ k <= Len(geom)
    /\ Write(PathToGcode(geom[k], loc.scale_factor, loc.min_x, loc.offset_x,
                         loc.offset_y, args.feed_rate, args.power))
    /\ k' = k + 1
    /\ UNCHANGED <<conv, args, source, geom, loc, pc, err>>

(* line 105, and the end of the with block *)
SvgHome ==
    /\ conv = "svg" /\ pc = "write"
    /\ k > Len(geom)
    /\ Write(HomeLine)
    /\ pc' = "done"
    /\ UNCHANGED <<conv, args, source, geom, loc, k, err>>

----------------------------------------------------------------------------
Next ==
    \/ ImageLoad
    \/ ImageTransform
    \/ GenOpen
    \/ GenContour
    \/ GenHome
    \/ SvgLoad
    \/ SvgCalculate
    \/ SvgCenter
    \/ SvgOpen
    \/ SvgPath
    \/ SvgHome

Spec == Init /\ [][Next]_vars

----------------------------------------------------------------------------
(* Reading the output program back. *)

Lines == dest.lines

(* The lines between the three setup lines and the last line. *)
Body == SubSeq(Lines, 4, Len(Lines) - 1)

(* Whether the laser is on after the first i lines; before the first line  *)
(* the machine's state is not known, which counts as on.                   *)
LaserOn(lines) ==
    LET On[i \in 0..Len(lines)] ==
            IF i = 0 THEN TRUE
            ELSE IF lines[i].op = "M3" THEN TRUE
            ELSE IF lines[i].op = "M5" THEN FALSE
            ELSE On[i - 1]
    IN  On

IsMove(ln) == ln.op \in {"G0", "G1"} /\ Len(ln.xy) = 2

(* The printed X (c = 1) or Y (c = 2) values of the curves' moves, in      *)
(* 1/1000 units: every move but the closing home move.                     *)
Emitted(c) == {Body[i].xy[c].m : i \in {j \in 1..Len(Body) : IsMove(Body[j])}}

SetMin(S) == CHOOSE x \in S : \A y \in S : x <= y
SetMax(S) == CHOOSE x \in S : \A y \in S : y <= x

EmittedLongestSide ==
    Max2(SetMax(Emitted(1)) - SetMin(Emitted(1)), SetMax(Emitted(2)) - SetMin(Emitted(2)))

(* The source points that are traced: the contours' points, or the         *)
(* endpoints of the paths' segments.                                       *)
TracedPoints ==
    IF conv = "image"
    THEN UNION {{source.curves[c][i] : i \in 1..Len(source.curves[c])}
                : c \in 1..Len(source.curves)}
    ELSE UNION {{source.curves[c][i] : i \in
                    (IF Len(source.curves[c]) >= 2 THEN 1..Len(source.curves[c]) ELSE {})}
                : c \in 1..Len(source.curves)}

Coord(c) == {p[c] : p \in TracedPoints}
Width == SetMax(Coord(1)) - SetMin(Coord(1))
Height == SetMax(Coord(2)) - SetMin(Coord(2))

(* current_longest_side as the specification defines it: 0 for no points *)
LongestSide == IF TracedPoints = {} THEN 0 ELSE Max2(Width, Height)

RECURSIVE SumLen(_, _)
SumLen(seqs, extra) ==
    IF seqs = <<>> THEN 0 ELSE Len(Head(seqs)) + extra + SumLen(Tail(seqs), extra)

RECURSIVE Flatten(_)
Flatten(seqs) == IF seqs = <<>> THEN <<>> ELSE Head(seqs) \o Flatten(Tail(seqs))

Ops(lines) == [i \in 1..Len(lines) |-> lines[i].op]

Count(lines, op) == Cardinality({i \in 1..Len(lines) : lines[i].op = op})

----------------------------------------------------------------------------
(* C1: in the program written so far, and in the finished program, every   *)
(* rapid move G0 (the closing home move included) runs with the laser      *)
(* off, every linear move G1 runs with the laser on, every M3 is followed  *)
(* by an M5 with no G0 in between, and the laser is off after the last     *)
(* line of a finished program.                                             *)
C1_LaserOnlyWhileTracing ==
    dest.opened =>
        LET on == LaserOn(Lines)
        IN  /\ \A i \in 1..Len(Lines) :
                  /\ Lines[i].op = "G0" => ~on[i - 1]
                  /\ Lines[i].op = "G1" => on[i - 1]
                  /\ Lines[i].op = "M3" =>
                        \E j \in (i + 1)..Len(Lines) :
                            /\ Lines[j].op = "M5"
                            /\ \A m \in (i + 1)..(j - 1) : Lines[m].op # "G0"
            /\ pc = "done" => ~on[Len(Lines)]

(* a finished image program of two contours, one of them with a G1 *)
C1_Witness ==
    /\ conv = "image" /\ pc = "done"
    /\ Count(Lines, "M3") >= 2
    /\ Count(Lines, "G1") >= 1

(* The number of body lines before curve c's, at p + 2 lines a curve. *)
C2_Start(curves, c) == SumLen(SubSeq(curves, 1, c - 1), 2)

C2_ImageBlocks ==
    /\ Len(Body) = SumLen(geom, 2)
    /\ \A c \in 1..Len(geom) :
          LET o == C2_Start(geom, c)
              p == Len(geom[c])
          IN  /\ p >= 1
              /\ Body[o + 1] = Ln("G0", PointXY(geom[c][1], loc.scale_factor,
                                                loc.offset_x, loc.offset_y), <<>>)
              /\ Body[o + 2] = Ln("M3", <<>>, <<args.power>>)
              /\ \A j \in 2..p :
                    Body[o + 1 + j] = Ln("G1", PointXY(geom[c][j], loc.scale_factor,
                                                       loc.offset_x, loc.offset_y),
                                         <<args.feed_rate>>)
              /\ Body[o + p + 2] = Ln("M5", <<>>, <<>>)
              /\ (p = 1 => Ops(SubSeq(Body, o + 1, o + 3)) = <<"G0", "M3", "M5">>)

C2_SvgBlocks ==
    LET segs == Flatten(geom)
        X(x) == Fmt3(RAdd(RMul(RSub(R(x), loc.min_x), loc.scale_factor), loc.offset_x))
        Y(y) == Fmt3(RAdd(RMul(R(y), loc.scale_factor), loc.offset_y))
    IN  /\ Len(Body) = 4 * Len(segs)
        /\ \A i \in 1..Len(segs) :
              /\ Body[4 * i - 3] = Ln("G0", <<X(segs[i][1][1]), Y(segs[i][1][2])>>, <<>>)
              /\ Body[4 * i - 2] = Ln("M3", <<>>, <<args.power>>)
              /\ Body[4 * i - 1] = Ln("G1", <<X(segs[i][2][1]), Y(segs[i][2][2])>>,
                                      <<args.feed_rate>>)
              /\ Body[4 * i] = Ln("M5", <<>>, <<>>)

(* C2: in a finished program the lines between the setup lines and the     *)
(* home move are, curve after curve, G0 to the first point, M3, one G1     *)
(* per further point in the curve's order, M5: sum of (p_i + 2) lines for  *)
(* the image converter (G0, M3, M5 for a one-point contour); for the svg   *)
(* converter four lines per segment, G0 to its start, M3, G1 to its end,   *)
(* M5.                                                                     *)
C2_InstructionsPerCurve ==
    pc = "done" => IF conv = "image" THEN C2_ImageBlocks ELSE C2_SvgBlocks

(* a finished image program with a one-point contour and a longer one *)
C2_Witness ==
    /\ conv = "image" /\ pc = "done"
    /\ \E c \in 1..Len(geom) : Len(geom[c]) = 1
    /\ \E c \in 1..Len(geom) : Len(geom[c]) >= 2

(* A rapid move to (0, 0). *)
C3_IsHome(ln) ==
    /\ ln.op = "G0" /\ Len(ln.xy) = 2
    /\ ln.xy[1].fin /\ ln.xy[1].m = 0
    /\ ln.xy[2].fin /\ ln.xy[2].m = 0

(* C3: an opened program starts with G21, G90, M5 in this order; a         *)
(* finished one ends with one rapid move to (0, 0), the line before it     *)
(* being no rapid move; for a scene without curves and no target size      *)
(* the finished program is these four lines.                               *)
C3_SetupAndHome ==
    /\ dest.opened =>
          /\ Len(Lines) >= 3
          /\ Ops(SubSeq(Lines, 1, 3)) = <<"G21", "G90", "M5">>
    /\ pc = "done" =>
          /\ Len(Lines) >= 4
          /\ C3_IsHome(Lines[Len(Lines)])
          /\ Lines[Len(Lines) - 1].op # "G0"
          /\ (source.curves = <<>> /\ args.longest_side = <<>>) =>
                Ops(Lines) = <<"G21", "G90", "M5", "G0">>

(* the svg converter has finished on a scene without paths *)
C3_Witness ==
    /\ conv = "svg" /\ pc = "done"
    /\ source.curves = <<>> /\ args.longest_side = <<>>
    /\ Len(Lines) = 4

(* C4: in a finished program, for a target T > 0 and a scene whose traced  *)
(* points span a longest side L > 0, the printed coordinates span a        *)
(* longest side of T (to within the last printed digit).                   *)
C4_ScaleCorrect ==
    (pc = "done" /\ args.longest_side # <<>> /\ LongestSide > 0) =>
        Abs(EmittedLongestSide - 1000 * args.longest_side[1]) <= 1

(* C5: in a finished program, for a placement P and a scene whose box has  *)
(* a width and a height, the centre of the printed coordinates' box is P   *)
(* (to within the last printed digit).                                     *)
C5_Centered ==
    (pc = "done" /\ args.center_offset # <<>> /\ TracedPoints # {}
        /\ Width > 0 /\ Height > 0) =>
        /\ Abs(SetMin(Emitted(1)) + SetMax(Emitted(1)) - 2000 * args.center_offset[1]) <= 2
        /\ Abs(SetMin(Emitted(2)) + SetMax(Emitted(2)) - 2000 * args.center_offset[2]) <= 2

(* C6: without a placement the offset added to every scaled point of a     *)
(* scene is (0, 0), in both converters.                                    *)
C6_NoPlacementNoOffset ==
    (args.center_offset = <<>> /\ TracedPoints # {}
        /\ pc \in {"open", "write", "done"}) =>
        /\ loc.offset_x = R(0)
        /\ loc.offset_y = R(0)

(* C7: with a target size and a scene of zero extent (no point, one        *)
(* point, coincident points) the run ends in an error before any output;   *)
(* without a target size the scene is accepted with scale 1.               *)
C7_DegenerateRejected ==
    /\ (source.readable /\ args.longest_side # <<>> /\ LongestSide = 0) =>
          /\ ~dest.opened
          /\ pc # "done"
    /\ (args.longest_side = <<>> /\ pc \in {"open", "write", "done"}) =>
          loc.scale_factor = R(1)

(* C8: with power <= 0 or feed_rate <= 0 the run fails before it writes    *)
(* a curve: no M3 or G1 line of the output carries a value <= 0.           *)
C8_ParametersValidated ==
    (args.power <= 0 \/ args.feed_rate <= 0) =>
        \A i \in 1..Len(Lines) :
            Lines[i].op \in {"M3", "G1"} => Lines[i].v[1] > 0

(* C9: once the svg converter is past the height step, it has failed       *)
(* there exactly when the source declares neither a viewBox nor a height,  *)
(* and otherwise the flip height is the viewBox height, or the height      *)
(* attribute when there is no viewBox.                                     *)
C9_HeightFromViewBoxOrAttribute ==
    (conv = "svg" /\ pc \in {"center", "open", "write", "done", "failed"}
        /\ source.readable) =>
        /\ err \in {"ValueError", "NameError"}
              <=> (source.viewBox = <<>> /\ source.height = <<>>)
        /\ err = "none" =>
              loc.svg_height = R(IF source.viewBox # <<>> THEN source.viewBox[1]
                                 ELSE source.height[1])

(* C10: the destination is opened only in the writing part of a run, after *)
(* the source is loaded and the transform computed; a run that ended in    *)
(* an error has not opened it, and it is as it was: absent, or holding     *)
(* what it held.                                                           *)
C10_NoOutputOnFailure ==
    /\ dest.opened =>
          /\ pc \in {"write", "done"}
          /\ err = "none"
          /\ source.readable
          /\ loc.scale_factor # Unset /\ loc.offset_y # Unset
    /\ pc = "failed" =>
          /\ err # "none"
          /\ dest \in {Absent, Stale}

(* the svg converter failed in the geometry step, the destination existing *)
C10_Witness ==
    /\ pc = "failed" /\ err = "ZeroDivisionError"
    /\ dest = Stale

====
